---- MODULE Spec2Model ----
(***************************************************************************)
(* Sticker set box of Telegram Desktop (boxes/sticker_set_box.cpp): the    *)
(* fetch of a sticker set (gotSet), the install request (install) and the  *)
(* install completion (installDone), acting on the session-wide registry   *)
(* of sticker sets, the install order and the archived order.              *)
(*                                                                         *)
(* Flag words are modelled as sets of flag names: | is \cup, & is \cap,    *)
(* &= ~f is \ {f}.  Lists (QList / QVector) are sequences; the code's      *)
(* indices are 0-based and are kept 0-based in IndexOf, RemoveAt and       *)
(* InsertAt.  The identity fields of a set that neither handler ever       *)
(* changes in the registry (access hash, title, short name, count, hash)   *)
(* are not part of the state.                                              *)
(***************************************************************************)
EXTENDS Integers, Sequences, FiniteSets, TLC

\* ------------------------------------------------------------------ bounds
NumBoxes == 2       \* box instances that may be opened
MaxSetId == 2       \* boxes are opened on the server sets 1..MaxSetId
MaxTime == 3        \* the clock runs from StartTime to MaxTime

\* --------------------------------------------------------------- constants
\* Stickers::CustomSetId, the sentinel id of the "custom" bucket
CustomSetId == 0
\* the set of the registry that no box is opened on
OtherSetId == MaxSetId + 1
\* TimeId(0): a set that carries no installed_date
NoDate == 0
\* the installed_date a fetched set carries when it has one (in the past)
PayloadDate == 1
\* the clock when the session starts
StartTime == PayloadDate + 1
\* ImagePtr(): no thumbnail
NoThumb == 0
\* mtpRequestId 0: no install request was sent
NoRequest == 0

Boxes == 1..NumBoxes
SetIds == 1..MaxSetId

\* MTPDstickerSet_ClientFlag bits kept across a fetch
ClientFlags == {"featured", "not_loaded", "unread", "special"}
\* MTPDstickerSet::Flag bits delivered by the server
ServerFlags == {"installed_date", "archived", "official", "masks", "thumb"}

\* documents known to the document store; document->sticker() is null for
\* the ones outside StickerDocs
Docs == {1, 2, 3, 4}
StickerDocs == {1, 2, 4}
Sticker(d) == d \in StickerDocs

\* Ui::Emoji::Find(text): the emoji for a text, "" (null) when the text is
\* no emoji; emoji->original(): the emoji without its colour variation
EmojiFind(text) == IF text \in {"e", "e+tone"} THEN text ELSE ""
EmojiOriginal(emoji) == IF emoji = "e+tone" THEN "e" ELSE emoji

\* ------------------------------------------------------------ list helpers
\* QList::indexOf: the 0-based index of the first occurrence, -1 when absent
RECURSIVE IndexFrom(_, _, _)
IndexFrom(list, x, i) ==
    IF i > Len(list) THEN -1
    ELSE IF list[i] = x THEN i - 1
    ELSE IndexFrom(list, x, i + 1)

IndexOf(list, x) == IndexFrom(list, x, 1)

\* QList::removeAt(i), 0-based
RemoveAt(list, i) ==
    [k \in 1..(Len(list) - 1) |-> IF k <= i THEN list[k] ELSE list[k + 1]]

\* QList::insert(i, x), 0-based
InsertAt(list, i, x) ==
    [k \in 1..(Len(list) + 1) |->
        IF k <= i THEN list[k] ELSE IF k = i + 1 THEN x ELSE list[k - 1]]

Range(list) == {list[k] : k \in 1..Len(list)}

\* ---------------------------------------------------- the fetched payload
\* MTPDmessages_stickerSet: the set's flags, its documents and its emoji
\* packs.  The optional fields follow the flags: installed_date is present
\* with the installed_date flag, the thumb with the thumb flag.
PayloadFlags ==
    { {}, {"installed_date"}, {"installed_date", "archived", "thumb"},
      {"masks"} }
PayloadDocuments == { <<3>>, <<1>>, <<2, 3, 1>> }
\* the emoji packs sent with the documents: a set of several documents has
\* them all under a toned emoji and its first under a text that is no emoji
PayloadPacks(documents) ==
    IF Len(documents) > 1
    THEN << [emoticon |-> "e+tone", documents |-> documents],
            [emoticon |-> "no emoji", documents |-> <<documents[1]>>] >>
    ELSE <<>>
Payloads ==
    { [flags |-> f, documents |-> d, packs |-> PayloadPacks(d)] :
        f \in PayloadFlags, d \in PayloadDocuments }

\* set.vinstalled_date().value_or(0)
InstalledDateOf(p) ==
    IF "installed_date" \in p.flags THEN PayloadDate ELSE NoDate

\* set.vthumb() ? Images::Create(set, *thumb) : ImagePtr(); the image made
\* for set id is named by the id
ThumbnailOf(p, id) == IF "thumb" \in p.flags THEN id ELSE NoThumb

\* the documents of the payload that carry sticker metadata, in order
ParsePack(documents) == SelectSeq(documents, Sticker)

\* the emoji map: one entry per pack whose emoticon is an emoji, keyed by
\* the original emoji, holding the pack's documents that are stickers
RECURSIVE ParseEmojiFrom(_, _, _)
ParseEmojiFrom(packs, k, map) ==
    IF k > Len(packs) THEN map
    ELSE LET emoji == EmojiFind(packs[k].emoticon)
             original == EmojiOriginal(emoji)
             p == SelectSeq(packs[k].documents, Sticker)
         IN  IF emoji = "" THEN ParseEmojiFrom(packs, k + 1, map)
             ELSE ParseEmojiFrom(packs, k + 1,
                     [e \in (DOMAIN map) \cup {original} |->
                         IF e = original THEN p ELSE map[e]])

ParseEmoji(packs) == ParseEmojiFrom(packs, 1, <<>>)

\* ------------------------------------------------------------------- state
VARIABLES
    sets,           \* session().data().stickerSetsRef(): id -> Stickers::Set
    order,          \* session().data().stickerSetsOrderRef()
    archivedOrder,  \* session().data().archivedStickerSetsOrderRef()
    box,            \* the StickerSetBox::Inner instances
    now,            \* base::unixtime::now() as last read
    calls,          \* what the last handler asked of its collaborators
    last            \* the last handler that ran, with its locals

vars == <<sets, order, archivedOrder, box, now, calls, last>>

\* Stickers::Set, the fields the handlers write
Entry(flags, installDate, stickers, emoji, thumbnail) ==
    [flags |-> flags, installDate |-> installDate, stickers |-> stickers,
     emoji |-> emoji, thumbnail |-> thumbnail]

\* the member initialisers of StickerSetBox::Inner; phase is "unborn" before
\* the box is shown and "closed" once it is destroyed
NewBox(phase) ==
    [phase |-> phase,
     input |-> 0,
     fetch |-> "none",
     install |-> "none",
     sent |-> 0,
     pack |-> <<>>,
     emoji |-> <<>>,
     loaded |-> FALSE,
     setId |-> 0,
     setFlags |-> {},
     setInstallDate |-> NoDate,
     setThumbnail |-> NoThumb,
     installRequest |-> NoRequest,
     addButton |-> FALSE]

\* the record of a handler run: the handler, its box and set id, its
\* locals (found: it != sets.cend(); wasArchived; index, of the id in the
\* archived order; currentIndex, of the id in the install order), the
\* branch or result kind, and the payload of a fetch
Ran(op, b, id, found, wasArchived, index, currentIndex, kind, payload) ==
    [op |-> op, box |-> b, id |-> id, found |-> found,
     wasArchived |-> wasArchived, index |-> index,
     currentIndex |-> currentIndex, kind |-> kind, payload |-> payload]

NoPayload == [flags |-> {}, documents |-> <<>>, packs |-> <<>>]

\* ----------------------------------------------------------------- queries
isMasksSet(bx) == "masks" \in bx.setFlags

loaded(bx) == bx.loaded /\ bx.pack # <<>>

notInstalled(bx, registry) ==
    IF ~bx.loaded THEN FALSE
    ELSE IF \/ bx.setId \notin DOMAIN registry
            \/ "installed_date" \notin registry[bx.setId].flags
            \/ "archived" \in registry[bx.setId].flags
         THEN bx.pack # <<>>
         ELSE FALSE

\* StickerSetBox::updateButtons: TRUE when the "add pack" button, the only
\* caller of install(), is among the buttons it adds
updateButtons(bx, registry) == loaded(bx) /\ notInstalled(bx, registry)

\* notifyStickersUpdated(): every shown box runs updateButtons
notifyStickersUpdated(boxes, registry) ==
    [b \in Boxes |->
        IF boxes[b].phase = "open"
        THEN [boxes[b] EXCEPT !.addButton = updateButtons(boxes[b], registry)]
        ELSE boxes[b]]

\* ---------------------------------------------------------- initial state
\* The registry a session may hold when the first box is shown: empty; with
\* every set installed; with archived sets.  Every id of an order sequence
\* is a key of the registry, no order sequence holds an id twice, and the
\* custom bucket holds no sticker twice.
InstalledRegistry ==
    [sets |->
        (CustomSetId :> Entry({"special"}, NoDate, <<4, 1>>, <<>>, NoThumb))
        @@ (1 :> Entry({"installed_date", "featured"}, PayloadDate, <<1>>,
                       <<>>, NoThumb))
        @@ (2 :> Entry({"installed_date", "official"}, PayloadDate, <<2>>,
                       <<>>, NoThumb))
        @@ (OtherSetId :> Entry({"installed_date"}, PayloadDate, <<4>>,
                                <<>>, NoThumb)),
     order |-> <<OtherSetId, 2, 1>>,
     archivedOrder |-> <<>>]

ArchivedRegistry ==
    [sets |->
        (CustomSetId :> Entry({"special"}, NoDate, <<1>>, <<>>, NoThumb))
        @@ (1 :> Entry({"installed_date", "archived", "unread"}, PayloadDate,
                       <<1>>, <<>>, NoThumb))
        @@ (2 :> Entry({"installed_date", "not_loaded"}, PayloadDate, <<>>,
                       <<>>, NoThumb))
        @@ (OtherSetId :> Entry({"installed_date", "archived"}, PayloadDate,
                                <<4>>, <<>>, NoThumb)),
     order |-> <<2>>,
     archivedOrder |-> <<OtherSetId, 1>>]

EmptyRegistry == [sets |-> <<>>, order |-> <<>>, archivedOrder |-> <<>>]

InitRegistries == {EmptyRegistry, InstalledRegistry, ArchivedRegistry}

Init ==
    /\ \E r \in InitRegistries :
        /\ sets = r.sets
        /\ order = r.order
        /\ archivedOrder = r.archivedOrder
    /\ box = [b \in Boxes |-> NewBox("unborn")]
    /\ now = StartTime
    /\ calls = <<>>
    /\ last = Ran("init", 0, 0, FALSE, FALSE, -1, -1, "", NoPayload)

\* ------------------------------------------------------------ showing a box
\* StickerSetBox::prepare creates the Inner for an inputStickerSetID; its
\* constructor sends the fetch and asks the session to update its stickers;
\* prepare then runs updateTitleAndButtons.  Boxes are shown in the order
\* of their names.
ShowBox(b, x) ==
    /\ box[b].phase = "unborn"
    /\ \A c \in Boxes : c < b => box[c].phase # "unborn"
    /\ LET made == [NewBox("open") EXCEPT
                        !.input = x, !.setId = x, !.fetch = "sent"]
       IN  box' = [box EXCEPT
                      ![b] = [made EXCEPT
                                 !.addButton = updateButtons(made, sets)]]
    /\ calls' = <<"GetStickerSet", "updateStickers">>
    /\ last' = Ran("show", b, x, FALSE, FALSE, -1, -1, "", NoPayload)
    /\ UNCHANGED <<sets, order, archivedOrder, now>>

\* --------------------------------------------------------------- the fetch
\* gotSet without the merge of the entry's client-only flags
GotSetFlagsUnmerged(payloadFlags, found, entryFlags) == payloadFlags

\* the flags gotSet keeps: the payload's, with the client-only flags of the
\* registry entry when there is one
GotSetFlags(payloadFlags, found, entryFlags) ==
    IF found THEN payloadFlags \cup (entryFlags \cap ClientFlags)
    ELSE payloadFlags

\* gotSet creating the entry the registry lacks
GotSetRegistryInserts(registry, id, entry) ==
    [k \in (DOMAIN registry) \cup {id} |->
        IF k = id THEN entry ELSE registry[k]]

\* the registry after gotSet: the flags, installDate, stickers, emoji and
\* thumbnail of an entry that is present are overwritten, an absent entry
\* is not created
GotSetRegistry(registry, id, entry) ==
    IF id \in DOMAIN registry
    THEN [registry EXCEPT ![id] = entry]
    ELSE registry

\* the box after gotSet: _loaded is set only past the empty-pack return
GotSetBox(bx, id, flags, installDate, pack, emoji, thumbnail) ==
    [bx EXCEPT
        !.fetch = "done",
        !.pack = pack,
        !.emoji = emoji,
        !.setId = id,
        !.setFlags = flags,
        !.setInstallDate = installDate,
        !.setThumbnail = thumbnail,
        !.loaded = IF pack = <<>> THEN bx.loaded ELSE TRUE]

\* gotSet without the "not found" box
GotSetCallsSilent(pack) == IF pack = <<>> THEN <<>> ELSE <<"updateControls">>

\* what gotSet shows: the "not found" box for an empty pack
GotSetCalls(pack) ==
    IF pack = <<>> THEN <<"lng_stickers_not_found">> ELSE <<"updateControls">>

\* the done handler of the fetch; the server answers with the set asked for
GotSet(b, p) ==
    /\ box[b].phase = "open"
    /\ box[b].fetch = "sent"
    /\ LET bx == box[b]
           id == bx.input
           pack == ParsePack(p.documents)
           emoji == ParseEmoji(p.packs)
           found == id \in DOMAIN sets
           flags == GotSetFlags(p.flags, found,
                                IF found THEN sets[id].flags ELSE {})
           date == InstalledDateOf(p)
           thumb == ThumbnailOf(p, id)
           registry == GotSetRegistry(sets, id,
                           Entry(flags, date, pack, emoji, thumb))
           got == GotSetBox(bx, id, flags, date, pack, emoji, thumb)
       IN  /\ sets' = registry
           /\ box' = [box EXCEPT
                         ![b] = IF pack = <<>> THEN got
                                ELSE [got EXCEPT
                                         !.addButton =
                                             updateButtons(got, registry)]]
           /\ calls' = GotSetCalls(pack)
           /\ last' = Ran("gotSet", b, id, found, FALSE, -1, -1, "", p)
    /\ UNCHANGED <<order, archivedOrder, now>>

\* the fail handler of the fetch
FetchFail(b) ==
    /\ box[b].phase = "open"
    /\ box[b].fetch = "sent"
    /\ box' = [box EXCEPT ![b].fetch = "failed", ![b].loaded = TRUE]
    /\ calls' = <<"lng_stickers_not_found">>
    /\ last' = Ran("fetchFail", b, box[b].setId, FALSE, FALSE, -1, -1, "",
                   NoPayload)
    /\ UNCHANGED <<sets, order, archivedOrder, now>>

\* ------------------------------------------------------------- the install
\* install() without the return on _installRequest
InstallBranchUnguarded(bx) == IF isMasksSet(bx) THEN "masks" ELSE "send"

\* what install() does: "masks" shows the masks box, "inFlight" is the
\* silent return on _installRequest, "send" sends the request
InstallBranch(bx) ==
    IF isMasksSet(bx) THEN "masks"
    ELSE IF bx.installRequest # NoRequest THEN "inFlight"
    ELSE "send"

\* the mtpRequestId the transport gives the install request of box b
RequestId(b) == b

\* StickerSetBox::addStickers, the "add pack" button: Inner::install
Install(b) ==
    /\ box[b].phase = "open"
    /\ box[b].addButton
    /\ LET branch == InstallBranch(box[b])
       IN  /\ box' = IF branch = "send"
                     THEN [box EXCEPT
                              ![b].installRequest = RequestId(b),
                              ![b].install = "sent",
                              ![b].sent = box[b].sent + 1]
                     ELSE box
           /\ calls' = IF branch = "masks" THEN <<"lng_stickers_masks_pack">>
                       ELSE IF branch = "send" THEN <<"InstallStickerSet">>
                       ELSE <<>>
           /\ last' = Ran("install", b, box[b].setId, FALSE, FALSE, -1, -1,
                          branch, NoPayload)
    /\ UNCHANGED <<sets, order, archivedOrder, now>>

\* installDone dropping the front of the archived order instead of the id
ArchivedOrderAfterFront(archived, id, wasArchived) ==
    IF wasArchived /\ archived # <<>> THEN Tail(archived) ELSE archived

\* the archived order after installDone
ArchivedOrderAfter(archived, id, wasArchived) ==
    IF wasArchived /\ IndexOf(archived, id) >= 0
    THEN RemoveAt(archived, IndexOf(archived, id))
    ELSE archived

\* installDone without the clearing of the archived flag
InstalledFlagsKeepArchived(flags) == flags \cup {"installed_date"}

\* _setFlags after installDone
InstalledFlags(flags) == (flags \ {"archived"}) \cup {"installed_date"}

\* installDone without the insert of an entry the registry lacks
UpsertHeldOnly(registry, id, flags, installDate, thumbnail, pack, emoji) ==
    IF id \notin DOMAIN registry THEN registry
    ELSE [registry EXCEPT
             ![id].flags = flags,
             ![id].installDate = installDate,
             ![id].stickers = pack,
             ![id].emoji = emoji]

\* the registry entry of the set after installDone: constructed when absent,
\* else flags and installDate written in place; stickers and emoji always
Upsert(registry, id, flags, installDate, thumbnail, pack, emoji) ==
    IF id \notin DOMAIN registry
    THEN [k \in (DOMAIN registry) \cup {id} |->
             IF k = id THEN Entry(flags, installDate, pack, emoji, thumbnail)
             ELSE registry[k]]
    ELSE [registry EXCEPT
             ![id].flags = flags,
             ![id].installDate = installDate,
             ![id].stickers = pack,
             ![id].emoji = emoji]

\* installDone moving the id to the front only when the order holds it
OrderAfterHeldOnly(list, id) ==
    LET currentIndex == IndexOf(list, id)
    IN  IF currentIndex > 0
        THEN InsertAt(RemoveAt(list, currentIndex), 0, id)
        ELSE list

\* the install order after installDone
OrderAfter(list, id) ==
    LET insertAtIndex == 0
        currentIndex == IndexOf(list, id)
    IN  IF currentIndex # insertAtIndex
        THEN InsertAt(IF currentIndex > 0 THEN RemoveAt(list, currentIndex)
                      ELSE list,
                      insertAtIndex, id)
        ELSE list

\* the custom bucket's stickers after the loop over _pack
RECURSIVE RemovePack(_, _, _)
RemovePack(stickers, pack, k) ==
    IF k > Len(pack) THEN stickers
    ELSE LET removeIndex == IndexOf(stickers, pack[k])
         IN  RemovePack(IF removeIndex >= 0
                        THEN RemoveAt(stickers, removeIndex)
                        ELSE stickers,
                        pack, k + 1)

\* the cleanup without the erase of an emptied bucket
CustomCleanupKeepsEmpty(registry, pack) ==
    IF CustomSetId \notin DOMAIN registry THEN registry
    ELSE [registry EXCEPT
             ![CustomSetId].stickers =
                 RemovePack(registry[CustomSetId].stickers, pack, 1)]

\* the registry after the custom bucket cleanup of installDone
CustomCleanup(registry, pack) ==
    IF CustomSetId \notin DOMAIN registry THEN registry
    ELSE LET left == RemovePack(registry[CustomSetId].stickers, pack, 1)
         IN  IF left = <<>>
             THEN [k \in (DOMAIN registry) \ {CustomSetId} |-> registry[k]]
             ELSE [registry EXCEPT ![CustomSetId].stickers = left]

\* installDone with the writes of an install also after an archive result
PersistenceCallsFallThrough(kind, wasArchived) ==
    (IF kind = "archive" THEN <<"ApplyArchivedResult">> ELSE <<>>)
    \o (IF wasArchived THEN <<"writeArchivedStickers">> ELSE <<>>)
    \o <<"writeInstalledStickers", "notifyStickersUpdated">>

\* what installDone asks of the storage and of the session for a result
PersistenceCalls(kind, wasArchived) ==
    IF kind = "archive" THEN <<"ApplyArchivedResult">>
    ELSE (IF wasArchived THEN <<"writeArchivedStickers">> ELSE <<>>)
         \o <<"writeInstalledStickers", "notifyStickersUpdated">>

\* Stickers::ApplyArchivedResult is no part of this file: only its call is
\* recorded
ResultKinds == {"success", "archive"}

\* the done handler of the install request: installDone, then the box's
\* setInstalled subscriber, which closes the box; t is what the clock reads
InstallDone(b, kind, t) ==
    /\ box[b].phase = "open"
    /\ box[b].install = "sent"
    /\ LET bx == box[b]
           id == bx.setId
           wasArchived == "archived" \in bx.setFlags
           flags == InstalledFlags(bx.setFlags)
           upserted == Upsert(sets, id, flags, t, bx.setThumbnail,
                              bx.pack, bx.emoji)
           registry == CustomCleanup(upserted, bx.pack)
           closed == [box EXCEPT ![b] = NewBox("closed")]
       IN  /\ archivedOrder' = ArchivedOrderAfter(archivedOrder, id,
                                                  wasArchived)
           /\ sets' = registry
           /\ order' = OrderAfter(order, id)
           /\ calls' = PersistenceCalls(kind, wasArchived)
                       \o <<"stickerSetInstalled", "closeBox">>
           /\ box' = IF kind = "archive" THEN closed
                     ELSE notifyStickersUpdated(closed, registry)
           /\ last' = Ran("installDone", b, id, id \in DOMAIN sets,
                          wasArchived,
                          IF wasArchived THEN IndexOf(archivedOrder, id)
                          ELSE -1,
                          IndexOf(order, id), kind, NoPayload)
    /\ t >= now
    /\ now' = t

\* a fail handler that sends the install request again
InstallFailRetries(b) ==
    /\ box[b].phase = "open"
    /\ box[b].install = "sent"
    /\ box' = [box EXCEPT ![b].sent = box[b].sent + 1]
    /\ calls' = <<"lng_stickers_not_found", "InstallStickerSet">>
    /\ last' = Ran("installFail", b, box[b].setId, FALSE, FALSE, -1, -1, "",
                   NoPayload)
    /\ UNCHANGED <<sets, order, archivedOrder, now>>

\* the fail handler of the install request
InstallFail(b) ==
    /\ box[b].phase = "open"
    /\ box[b].install = "sent"
    /\ box' = [box EXCEPT ![b].install = "failed"]
    /\ calls' = <<"lng_stickers_not_found">>
    /\ last' = Ran("installFail", b, box[b].setId, FALSE, FALSE, -1, -1, "",
                   NoPayload)
    /\ UNCHANGED <<sets, order, archivedOrder, now>>

\* the "cancel" button: closeBox destroys the box and its requests
CloseBox(b) ==
    /\ box[b].phase = "open"
    /\ box' = [box EXCEPT ![b] = NewBox("closed")]
    /\ calls' = <<"closeBox">>
    /\ last' = Ran("closeBox", b, box[b].setId, FALSE, FALSE, -1, -1, "",
                   NoPayload)
    /\ UNCHANGED <<sets, order, archivedOrder, now>>

\* ------------------------------------------------------------ environment
\* the flags the session's sticker update gives a featured set
FeaturedFlags == {"featured", "unread"}

\* the answer to the updateStickers() of the Inner constructor: set x is
\* featured; an entry is created, not yet loaded, when the registry has none
StickersUpdated(x) ==
    /\ \E b \in Boxes : box[b].phase # "unborn"
    /\ LET registry ==
               IF x \in DOMAIN sets
               THEN [sets EXCEPT ![x].flags = @ \cup FeaturedFlags]
               ELSE [k \in (DOMAIN sets) \cup {x} |->
                        IF k = x
                        THEN Entry(FeaturedFlags \cup {"not_loaded"}, NoDate,
                                   <<>>, <<>>, NoThumb)
                        ELSE sets[k]]
       IN  /\ registry # sets
           /\ sets' = registry
           /\ box' = notifyStickersUpdated(box, registry)
    /\ calls' = <<"notifyStickersUpdated">>
    /\ last' = Ran("stickersUpdated", 0, x, x \in DOMAIN sets, FALSE, -1, -1,
                   "", NoPayload)
    /\ UNCHANGED <<order, archivedOrder, now>>

\* the readings of the clock
Times == StartTime..MaxTime

Next ==
    \/ \E b \in Boxes, x \in SetIds : ShowBox(b, x)
    \/ \E b \in Boxes, p \in Payloads : GotSet(b, p)
    \/ \E b \in Boxes : FetchFail(b)
    \/ \E b \in Boxes : Install(b)
    \/ \E b \in Boxes, kind \in ResultKinds, t \in Times :
          InstallDone(b, kind, t)
    \/ \E b \in Boxes : InstallFail(b)
    \/ \E b \in Boxes : CloseBox(b)
    \/ \E x \in SetIds : StickersUpdated(x)

Spec == Init /\ [][Next]_vars

\* ================================================================== claims

\* C1: a fetch completion for a set id the registry holds keeps every
\* client-only flag (featured, not_loaded, unread, special) the entry had,
\* whatever the payload's flags, and the server-owned flags of the entry
\* afterwards are the payload's.
FetchKeepsClientFlags ==
    [][(last'.op = "gotSet" /\ last'.found) =>
          LET id == last'.id
          IN  /\ (sets[id].flags \cap ClientFlags) \subseteq sets'[id].flags
              /\ sets'[id].flags \cap ServerFlags = last'.payload.flags
              /\ sets'[id].flags \ ServerFlags = sets[id].flags \cap ClientFlags
      ]_vars

\* a fetch has overwritten an entry that keeps a client-only flag its
\* payload, which carries flags of its own, did not have
FetchKeptClientFlag ==
    /\ last.op = "gotSet"
    /\ last.found
    /\ last.payload.flags # {}
    /\ sets[last.id].flags \cap ClientFlags # {}
    /\ sets[last.id].flags \cap ServerFlags = last.payload.flags

\* C2: after an install completion for set X, X is at index 0 of the install
\* order, whether X was absent, at index 0 or further back; an order with X
\* at index 0 is unchanged, and the other ids keep their relative order.
InstalledSetIsFirst ==
    [][last'.op = "installDone" =>
          LET id == last'.id
              Other(x) == x # id
          IN  /\ order' # <<>>
              /\ order'[1] = id
              /\ IndexOf(order, id) = 0 => order' = order
              /\ SelectSeq(order', Other) = SelectSeq(order, Other)
      ]_vars

\* an install completion has moved its set from behind two other sets to
\* the front of the install order
InstalledSetMovedToFront ==
    /\ last.op = "installDone"
    /\ last.currentIndex > 1
    /\ order[1] = last.id
    /\ Len(order) = 3

\* C3: of the Install calls of one box on a set that is no masks set, made
\* while its install request is outstanding, none sends a request or shows
\* a box: the box has sent exactly one install request.
InstallSendsOnce ==
    [][\A b \in Boxes :
          /\ box'[b].sent <= 1
          /\ (last'.op = "install" /\ last'.box = b /\ ~isMasksSet(box[b])) =>
                /\ box[b].install = "none" =>
                       /\ box'[b].sent = 1
                       /\ box'[b].install = "sent"
                       /\ calls' = <<"InstallStickerSet">>
                /\ box[b].install = "sent" =>
                       /\ box'[b] = box[b]
                       /\ calls' = <<>>
      ]_vars

\* an Install call was made while the box's one request was outstanding
InstallRefusedInFlight ==
    /\ last.op = "install"
    /\ last.kind = "inFlight"
    /\ box[last.box].install = "sent"
    /\ box[last.box].sent = 1
    /\ calls = <<>>

\* C4: an install completion for a set fetched as archived takes the set's
\* id out of the archived order and leaves every other id in place; with
\* the id absent, as after an earlier completion for the same id, the
\* archived order is unchanged.
ArchivedRemovedOnce ==
    [][(last'.op = "installDone" /\ last'.wasArchived) =>
          LET id == last'.id
              Other(x) == x # id
          IN  /\ archivedOrder' = SelectSeq(archivedOrder, Other)
              /\ IndexOf(archivedOrder, id) < 0 =>
                     archivedOrder' = archivedOrder
              /\ IndexOf(archivedOrder', id) < 0
      ]_vars

\* a further install completion for a set fetched as archived: the set was
\* already first in the install order and out of the archived order, which
\* still holds the other set
ArchivedRemovalRepeated ==
    /\ last.op = "installDone"
    /\ last.wasArchived
    /\ last.found
    /\ last.index < 0
    /\ last.currentIndex = 0
    /\ archivedOrder = <<OtherSetId>>

\* C5: an install completion takes every sticker of the installed pack out
\* of the custom bucket, leaves the bucket's other stickers in their order,
\* and deletes the bucket from the registry exactly when nothing is left.
CustomBucketCleaned ==
    [][(last'.op = "installDone" /\ CustomSetId \in DOMAIN sets) =>
          LET pack == box[last'.box].pack
              Kept(sticker) == sticker \notin Range(pack)
              left == SelectSeq(sets[CustomSetId].stickers, Kept)
          IN  IF left = <<>>
              THEN CustomSetId \notin DOMAIN sets'
              ELSE /\ CustomSetId \in DOMAIN sets'
                   /\ sets'[CustomSetId].stickers = left
      ]_vars

\* an install completion has emptied and deleted the custom bucket of a
\* registry that holds other sets
CustomBucketDeleted ==
    /\ last.op = "installDone"
    /\ CustomSetId \notin DOMAIN sets
    /\ OtherSetId \in DOMAIN sets

\* C6, as claimed: a fetch completion for a set id the registry lacks
\* leaves an entry for that id holding the fetched pack and flags.
FetchMissCreatesEntry ==
    (last.op = "gotSet" /\ ~last.found) =>
        /\ last.id \in DOMAIN sets
        /\ sets[last.id].stickers = ParsePack(last.payload.documents)
        /\ sets[last.id].flags = last.payload.flags

\* C6, amended: a fetch completion for a set id the registry lacks leaves
\* the registry as it was, without an entry for the id; the box alone holds
\* the fetched pack and the flags the fetch reported, none of them
\* client-only, and a box that loaded offers "add pack".
FetchMissLeavesRegistry ==
    [][(last'.op = "gotSet" /\ ~last'.found) =>
          LET b == last'.box
          IN  /\ sets' = sets
              /\ last'.id \notin DOMAIN sets'
              /\ box'[b].pack = ParsePack(last'.payload.documents)
              /\ box'[b].setFlags = last'.payload.flags
              /\ box'[b].setFlags \cap ClientFlags = {}
              /\ box'[b].pack # <<>> => box'[b].addButton
      ]_vars

\* a fetch on a set the registry lacks has loaded a pack of two stickers
\* into the box, which offers "add pack", and the registry lacks the set
FetchMissHeldByBox ==
    /\ last.op = "gotSet"
    /\ ~last.found
    /\ last.id \notin DOMAIN sets
    /\ box[last.box].pack = <<2, 1>>
    /\ box[last.box].addButton

\* C7: after an install completion for set X the registry holds an entry
\* for X, installed, not archived, its installDate the clock's reading, its
\* stickers and emoji map those of the box's fetch.
InstallUpsertsEntry ==
    [][last'.op = "installDone" =>
          LET id == last'.id
              b == last'.box
          IN  /\ id \in DOMAIN sets'
              /\ "installed_date" \in sets'[id].flags
              /\ "archived" \notin sets'[id].flags
              /\ sets'[id].installDate = now'
              /\ sets'[id].stickers = box[b].pack
              /\ sets'[id].emoji = box[b].emoji
      ]_vars

\* an install completion has updated in place the entry of a set that was
\* fetched as archived
InstalledArchivedEntry ==
    /\ last.op = "installDone"
    /\ last.found
    /\ last.wasArchived
    /\ "installed_date" \in sets[last.id].flags
    /\ "archived" \notin sets[last.id].flags
    /\ sets[last.id].installDate = now
    /\ sets[last.id].stickers # <<>>

Count(list, x) == Cardinality({k \in 1..Len(list) : list[k] = x})

\* C8: installDone on an archive result calls ApplyArchivedResult and none
\* of writeInstalledStickers, writeArchivedStickers, notifyStickersUpdated;
\* on any other result it calls writeInstalledStickers and
\* notifyStickersUpdated once each, and writeArchivedStickers exactly when
\* the set was archived, that is when the _setFlags the box held for it
\* before the completion had the archived flag.
PersistenceIsExclusive ==
    last.op = "installDone" =>
        IF last.kind = "archive"
        THEN /\ Count(calls, "ApplyArchivedResult") = 1
             /\ Count(calls, "writeInstalledStickers") = 0
             /\ Count(calls, "writeArchivedStickers") = 0
             /\ Count(calls, "notifyStickersUpdated") = 0
        ELSE /\ Count(calls, "ApplyArchivedResult") = 0
             /\ Count(calls, "writeInstalledStickers") = 1
             /\ Count(calls, "notifyStickersUpdated") = 1
             /\ Count(calls, "writeArchivedStickers")
                    = IF last.wasArchived THEN 1 ELSE 0

\* an archive result for a set that was archived: only the archive path ran
ArchiveResultApplied ==
    /\ last.op = "installDone"
    /\ last.kind = "archive"
    /\ last.wasArchived
    /\ calls = <<"ApplyArchivedResult", "stickerSetInstalled", "closeBox">>

\* C9: a transport failure of the install request shows the "not found"
\* box and nothing else: no install request is sent, installDone does not
\* run, and the registry, the install order and the archived order are as
\* they were.
InstallFailureChangesNothing ==
    [][last'.op = "installFail" =>
          LET b == last'.box
          IN  /\ calls' = <<"lng_stickers_not_found">>
              /\ sets' = sets
              /\ order' = order
              /\ archivedOrder' = archivedOrder
              /\ box'[b].sent = box[b].sent
              /\ box'[b].install = "failed"
              /\ box'[b].phase = "open"
      ]_vars

\* the one install request of a box has failed
InstallFailed ==
    /\ last.op = "installFail"
    /\ box[last.box].install = "failed"
    /\ box[last.box].sent = 1
    /\ calls = <<"lng_stickers_not_found">>

\* C10: a fetch that completes with a pack without a sticker shows the "not
\* found" box, and its box is never loaded(), never offers "add pack" and
\* sends no install request.
EmptyPackNeverInstalls ==
    /\ \A b \in Boxes :
          (box[b].phase = "open" /\ box[b].fetch = "done"
                /\ box[b].pack = <<>>) =>
              /\ ~loaded(box[b])
              /\ ~box[b].addButton
              /\ box[b].sent = 0
              /\ box[b].install = "none"
    /\ (last.op = "gotSet" /\ ParsePack(last.payload.documents) = <<>>) =>
          /\ box[last.box].pack = <<>>
          /\ Count(calls, "lng_stickers_not_found") = 1

\* a fetch has completed with an empty pack for a set the registry holds as
\* not installed, and a later update of the session's stickers has run
\* updateButtons on the box
EmptyPackBoxUpdated ==
    /\ last.op = "stickersUpdated"
    /\ \E b \in Boxes :
          /\ box[b].phase = "open"
          /\ box[b].fetch = "done"
          /\ box[b].pack = <<>>
          /\ box[b].setId \in DOMAIN sets
          /\ "installed_date" \notin sets[box[b].setId].flags
          /\ ~box[b].addButton

\* C11: every id of the install order and of the archived order is a key
\* of the registry, after any run of fetches, fetch failures, Install
\* calls, install completions and install failures of the boxes, the
\* deletion of the custom bucket included.
OrdersWithinRegistry ==
    Range(order) \cup Range(archivedOrder) \subseteq DOMAIN sets

\* an install completion has created the entry of a set the registry
\* lacked and put it first in an install order that holds another set
InstalledAbsentSet ==
    /\ last.op = "installDone"
    /\ ~last.found
    /\ last.id \in DOMAIN sets
    /\ order[1] = last.id
    /\ Len(order) = 2

\* C12: client-only flags survive the install completion: the client-only
\* flags (featured, not_loaded, unread, special) that the registry entry of
\* the set has when installDone runs, set there by another actor after the
\* box's fetch included, are still set on the entry afterwards.
InstallKeepsClientFlags ==
    [][(last'.op = "installDone" /\ last'.found) =>
          (sets[last'.id].flags \cap ClientFlags) \subseteq sets'[last'.id].flags
      ]_vars

\* C13: an Install call on a set that is no masks set, made after the box's
\* install request has failed, when no request is in flight, sends a new
\* install request.
InstallAfterFailureSends ==
    [][\A b \in Boxes :
          (/\ last'.op = "install"
           /\ last'.box = b
           /\ ~isMasksSet(box[b])
           /\ box[b].install = "failed") =>
              /\ box'[b].sent = box[b].sent + 1
              /\ box'[b].install = "sent"
              /\ calls' = <<"InstallStickerSet">>
      ]_vars

\* C14: a fetch that ends in the "not found" box, by a failure of the
\* request or by a pack without a sticker, leaves the registry as it was,
\* also when it holds the fetched set.
NotFoundFetchLeavesRegistry ==
    [][(\/ last'.op = "fetchFail"
        \/ /\ last'.op = "gotSet"
           /\ ParsePack(last'.payload.documents) = <<>>) =>
          sets' = sets
      ]_vars

====
